---- MODULE Spec2Model ----
(***************************************************************************)
(* Model of src/pooja.py: the discrete-event simulation of a single-server *)
(* FIFO queue (simulate_queue) and the experiment sweep that drives it     *)
(* (run_experiments); and of the closed-form delay formulas of             *)
(* src/delay_analyzer.py.                                                  *)
(*                                                                         *)
(* Times are whole numbers of an arbitrary time unit.  float('inf') is the *)
(* number Inf, larger than every finite time of the model.  A Python       *)
(* attribute that is None or a float is <<>> or <<v>>.  A float that need  *)
(* not be a whole number (a rate, a mean) is a record [k, n, d]: the       *)
(* fraction n/d in lowest terms, or inf, or nan.                           *)
(***************************************************************************)
EXTENDS Integers, Sequences, FiniteSets, TLC

\* ---------------------------------------------------------------- bounds
MaxSimTime == 3
MaxPackets == 4
MaxGap == 2
MaxService == 2
MaxRunPackets == 2
MaxRhos == 2
MaxArg == 2

\* ------------------------------------------------------ program constants
Inf == 1000000
DefaultMaxPackets == 2000000

VARIABLES
    \* simulate_queue: position, arguments, locals, returned sequences
    pc, arrival_rate, service_time_sampler, sim_time, max_packets,
    t, next_arrival, queue, server_busy, departure_time,
    packets_completed, current_serving, packet_count,
    heap, idle_arrivals, delays, queueing_times,
    \* run_experiments: position, arguments, locals
    run_pc, packet_size_bytes, bandwidth_bps, rho_list, run_sim_time,
    service_rate_packets, service_time_mean, rows, rho_idx, delays_mm, q_mm,
    \* delay_analyzer: the function called, its arguments, what it returned
    da_fn, da_args, da_value, da_report

simArgs == <<arrival_rate, service_time_sampler, sim_time, max_packets>>
simLocals == <<t, next_arrival, queue, server_busy, departure_time,
               packets_completed, current_serving, packet_count,
               heap, idle_arrivals>>
simResult == <<delays, queueing_times>>
simVars == <<pc, simArgs, simLocals, simResult>>
runArgs == <<packet_size_bytes, bandwidth_bps, rho_list, run_sim_time>>
runLocals == <<service_rate_packets, service_time_mean, rows, rho_idx,
               delays_mm, q_mm>>
runVars == <<run_pc, runArgs, runLocals>>
daVars == <<da_fn, da_args, da_value, da_report>>
vars == <<simVars, runVars, daVars>>

\* ---------------------------------------------------------------- floats
RECURSIVE GCD(_, _)
GCD(a, b) == IF b = 0 THEN a ELSE GCD(b, a % b)

Abs(x) == IF x < 0 THEN -x ELSE x

\* n/d in lowest terms with a positive denominator (d # 0)
Num(n, d) ==
    LET g == GCD(Abs(n), Abs(d))
        s == IF d < 0 THEN -1 ELSE 1
    IN  [k |-> "num", n |-> (s * n) \div g, d |-> (s * d) \div g]

FInf == [k |-> "inf", n |-> 1, d |-> 0]
FNaN == [k |-> "nan", n |-> 0, d |-> 0]

FMul(a, b) == Num(a.n * b.n, a.d * b.d)
FDiv(a, b) == Num(a.n * b.d, a.d * b.n)
FSub(a, b) == Num(a.n * b.d - b.n * a.d, a.d * b.d)
FLess(a, b) == a.n * b.d < b.n * a.d

RECURSIVE Sum(_)
Sum(xs) == IF xs = <<>> THEN 0 ELSE Head(xs) + Sum(Tail(xs))

\* statistics.mean of a non-empty list
Mean(xs) == Num(Sum(xs), Len(xs))

Positive(x) == x.k = "inf" \/ (x.k = "num" /\ x.n > 0)
Negative(x) == x.k = "num" /\ x.n < 0
IsZero(x) == x.k = "num" /\ x.n = 0

None == <<>>
Truthy(x) == x # None /\ x[1] # 0

\* ------------------------------------------------------------ randomness
\* random.expovariate(lambd): -log(1 - random()) / lambd, so any value >= 0
\* (0.0 included) for lambd > 0, any value <= 0 for lambd < 0, and a
\* ZeroDivisionError (no value) for lambd = 0.
Expovariate(lambd, bound) ==
    IF Positive(lambd) THEN 0..bound
    ELSE IF Negative(lambd) THEN {-x : x \in 0..bound}
    ELSE {}

\* The values one call of the service_time_sampler can return.
Sample(sampler) ==
    IF sampler.kind = "exp" THEN Expovariate(sampler.arg, MaxService)
    ELSE {sampler.arg.n}

ExpSampler(rate) == [kind |-> "exp", arg |-> rate]
ConstSampler(value) == [kind |-> "const", arg |-> value]

\* --------------------------------------------------------------- packets
Packet(arrival) ==
    [arrival_time |-> arrival, start_service |-> None, departure_time |-> None]

StartServiceNoClock(pkt, now, service_time) ==
    [pkt EXCEPT !.start_service = <<now>>,
                !.departure_time = <<service_time>>]

StartService(pkt, now, service_time) ==
    [pkt EXCEPT !.start_service = <<now>>,
                !.departure_time = <<now + service_time>>]

\* ------------------------------------------------------------ delay_analyzer
ZeroDivisionError == [k |-> "raise", n |-> 0, d |-> 0]

\* a / b on Python numbers
PyDiv(a, b) == IF b = 0 THEN ZeroDivisionError ELSE Num(a, b)

Million == 1000000

\* round(x, 6): to the nearest multiple of 10^-6, ties to even; inf stays inf
Round6(x) ==
    IF x.k # "num" THEN x
    ELSE LET g == GCD(Million, x.d)
             scaled == x.n * (Million \div g)
             unit == x.d \div g
             q == scaled \div unit
             r == scaled % unit
             up == 2 * r > unit \/ (2 * r = unit /\ q % 2 = 1)
         IN  Num(IF up THEN q + 1 ELSE q, Million)

\* float +
FAdd(a, b) ==
    IF a.k = "nan" \/ b.k = "nan" THEN FNaN
    ELSE IF a.k = "inf" \/ b.k = "inf" THEN FInf
    ELSE LET g == GCD(a.d, b.d)
         IN  Num(a.n * (b.d \div g) + b.n * (a.d \div g), (a.d \div g) * b.d)

TransmissionDelayUncaught(packet_size_bits, link_bps) ==
    LET delay == PyDiv(packet_size_bits, link_bps)
    IN  IF delay = ZeroDivisionError THEN ZeroDivisionError ELSE Round6(delay)

\* lines 41-49
TransmissionDelay(packet_size_bits, link_bps) ==
    LET delay == PyDiv(packet_size_bits, link_bps)
    IN  IF delay = ZeroDivisionError THEN FInf ELSE Round6(delay)

\* lines 51-59
PropagationDelay(distance_km, propagation_speed_kmps) ==
    LET delay == PyDiv(distance_km, propagation_speed_kmps)
    IN  IF delay = ZeroDivisionError THEN FInf ELSE Round6(delay)

\* lines 61-71
CongestionDelay(queue_length, avg_packet_arrival_rate, avg_packet_service_rate) ==
    IF avg_packet_service_rate <= avg_packet_arrival_rate THEN FInf
    ELSE LET delay == PyDiv(queue_length,
                            avg_packet_service_rate - avg_packet_arrival_rate)
         IN  IF delay = ZeroDivisionError THEN FInf ELSE Round6(delay)

Raises(x) == x = ZeroDivisionError

\* lines 73-84: the report, or the exception a component let through
TotalNetworkDelay(a) ==
    LET t_delay == TransmissionDelay(a.packet_size_bits, a.bandwidth_bps)
        p_delay == PropagationDelay(a.distance_km, a.propagation_speed_kmps)
        c_delay == CongestionDelay(a.queue_length, a.arrival_rate, a.service_rate)
    IN  IF Raises(t_delay) \/ Raises(p_delay) \/ Raises(c_delay)
        THEN [transmission |-> ZeroDivisionError, propagation |-> ZeroDivisionError,
              congestion |-> ZeroDivisionError, total |-> ZeroDivisionError]
        ELSE [transmission |-> t_delay, propagation |-> p_delay,
              congestion |-> c_delay,
              total |-> Round6(FAdd(FAdd(t_delay, p_delay), c_delay))]

NoArgs ==
    [packet_size_bits |-> 0, bandwidth_bps |-> 0, distance_km |-> 0,
     propagation_speed_kmps |-> 0, queue_length |-> 0, arrival_rate |-> 0,
     service_rate |-> 0]
NoReport ==
    [transmission |-> FNaN, propagation |-> FNaN, congestion |-> FNaN,
     total |-> FNaN]

DaFrame == UNCHANGED <<simVars, runVars, da_args>>

CallTransmissionDelay ==
    /\ da_fn = "ready"
    /\ da_fn' = "transmission_delay"
    /\ da_value' = TransmissionDelay(da_args.packet_size_bits, da_args.bandwidth_bps)
    /\ UNCHANGED da_report
    /\ DaFrame

CallPropagationDelay ==
    /\ da_fn = "ready"
    /\ da_fn' = "propagation_delay"
    /\ da_value' = PropagationDelay(da_args.distance_km,
                                    da_args.propagation_speed_kmps)
    /\ UNCHANGED da_report
    /\ DaFrame

CallCongestionDelay ==
    /\ da_fn = "ready"
    /\ da_fn' = "congestion_delay"
    /\ da_value' = CongestionDelay(da_args.queue_length, da_args.arrival_rate,
                                   da_args.service_rate)
    /\ UNCHANGED da_report
    /\ DaFrame

CallTotalNetworkDelay ==
    /\ da_fn = "ready"
    /\ da_fn' = "total_network_delay"
    /\ da_report' = TotalNetworkDelay(da_args)
    /\ UNCHANGED da_value
    /\ DaFrame

\* ------------------------------------------- a call of a delay formula
Args == 0..MaxArg

InitDelay ==
    /\ da_fn = "ready"
    /\ da_args \in [packet_size_bits : Args, bandwidth_bps : Args,
                    distance_km : Args, propagation_speed_kmps : Args,
                    queue_length : Args, arrival_rate : Args,
                    service_rate : Args]
    /\ da_value = FNaN
    /\ da_report = NoReport
    /\ pc = "idle"
    /\ arrival_rate = Num(0, 1)
    /\ service_time_sampler = ConstSampler(Num(0, 1))
    /\ sim_time = 0
    /\ max_packets = 0
    /\ t = 0
    /\ next_arrival = Inf
    /\ queue = <<>>
    /\ server_busy = FALSE
    /\ departure_time = Inf
    /\ packets_completed = <<>>
    /\ current_serving = 0
    /\ packet_count = 0
    /\ heap = <<>>
    /\ idle_arrivals = {}
    /\ delays = <<>>
    /\ queueing_times = <<>>
    /\ run_pc = "none"
    /\ packet_size_bytes = 0
    /\ bandwidth_bps = 0
    /\ rho_list = <<>>
    /\ run_sim_time = 0
    /\ service_rate_packets = FNaN
    /\ service_time_mean = FNaN
    /\ rows = <<>>
    /\ rho_idx = 0
    /\ delays_mm = <<>>
    /\ q_mm = <<>>

NextDelay ==
    \/ CallTransmissionDelay \/ CallPropagationDelay
    \/ CallCongestionDelay \/ CallTotalNetworkDelay

SpecDelay == InitDelay /\ [][NextDelay]_vars

\* ----------------------------------------------------------- simulate_queue
FirstArrivalUnguarded(rate) == 0..MaxGap

FirstArrival(rate) ==
    IF Positive(rate) THEN Expovariate(rate, MaxGap) ELSE {Inf}

Enter ==
    /\ pc = "call"
    /\ pc' = "loop"
    /\ t' = 0
    /\ next_arrival' \in FirstArrival(arrival_rate)
    /\ queue' = <<>>
    /\ server_busy' = FALSE
    /\ departure_time' = Inf
    /\ packets_completed' = <<>>
    /\ current_serving' = 0
    /\ packet_count' = 0
    /\ heap' = <<>>
    /\ idle_arrivals' = {}
    /\ UNCHANGED <<simArgs, simResult, runVars, daVars>>

LoopCondOffByOne == t < sim_time /\ packet_count <= max_packets

LoopCond == t < sim_time /\ packet_count < max_packets

ArrivalChosenIgnoringDeparture == next_arrival <= sim_time

ArrivalChosen == next_arrival <= departure_time /\ next_arrival <= sim_time

BeyondHorizonUnchecked == FALSE

BeyondHorizon == departure_time > sim_time

\* The model admits at most this many packets per run (a bound of the model:
\* a direct call is bounded by max_packets <= MaxPackets already).
AdmitBound == IF run_pc = "none" THEN MaxPackets ELSE MaxRunPackets

ArrivalEvent ==
    /\ pc = "loop"
    /\ LoopCond
    /\ ArrivalChosen
    /\ packet_count < AdmitBound
    /\ LET now == next_arrival
           id == Len(heap) + 1
           pkt == Packet(now)
       IN  /\ t' = now
           /\ packet_count' = packet_count + 1
           /\ IF ~server_busy
              THEN \E service_time \in Sample(service_time_sampler) :
                     /\ heap' = Append(heap, StartService(pkt, now, service_time))
                     /\ departure_time' = now + service_time
                     /\ current_serving' = id
                     /\ server_busy' = TRUE
                     /\ idle_arrivals' = idle_arrivals \cup {id}
                     /\ queue' = queue
              ELSE /\ heap' = Append(heap, pkt)
                   /\ queue' = Append(queue, id)
                   /\ UNCHANGED <<departure_time, current_serving, server_busy,
                                  idle_arrivals>>
           /\ \E gap \in Expovariate(arrival_rate, MaxGap) :
                next_arrival' = now + gap
    /\ UNCHANGED <<pc, simArgs, packets_completed, simResult, runVars, daVars>>

RecordCompletionForgotten(completed, serving) == completed

RecordCompletionTwice(completed, serving) ==
    IF serving # 0 THEN Append(Append(completed, serving), serving) ELSE completed

RecordCompletion(completed, serving) ==
    IF serving # 0 THEN Append(completed, serving) ELSE completed

PopRight(q) == <<q[Len(q)], SubSeq(q, 1, Len(q) - 1)>>

Popleft(q) == <<Head(q), Tail(q)>>

StaleDepartureTime(d) == d

IdleDepartureTime(d) == Inf

DepartureEvent ==
    /\ pc = "loop"
    /\ LoopCond
    /\ ~ArrivalChosen
    /\ ~BeyondHorizon
    /\ LET now == departure_time
       IN  /\ t' = now
           /\ packets_completed' = RecordCompletion(packets_completed, current_serving)
           /\ IF queue # <<>>
              THEN \E service_time \in Sample(service_time_sampler) :
                     LET next_pkt == Popleft(queue)[1]
                     IN  /\ queue' = Popleft(queue)[2]
                         /\ heap' = [heap EXCEPT ![next_pkt] =
                                        StartService(@, now, service_time)]
                         /\ departure_time' = now + service_time
                         /\ current_serving' = next_pkt
                         /\ server_busy' = TRUE
              ELSE /\ server_busy' = FALSE
                   /\ departure_time' = IdleDepartureTime(departure_time)
                   /\ current_serving' = 0
                   /\ UNCHANGED <<queue, heap>>
    /\ UNCHANGED <<pc, simArgs, next_arrival, packet_count, idle_arrivals,
                   simResult, runVars, daVars>>

TotalDelay(p) == p.departure_time[1] - p.arrival_time

QDelayServiceTime(p) == p.departure_time[1] - p.start_service[1]

QDelay(p) ==
    IF Truthy(p.start_service) THEN p.start_service[1] - p.arrival_time ELSE 0

\* lines 68-76: the two returned sequences
Collect ==
    /\ delays' = [i \in 1..Len(packets_completed) |->
                    TotalDelay(heap[packets_completed[i]])]
    /\ queueing_times' = [i \in 1..Len(packets_completed) |->
                            QDelay(heap[packets_completed[i]])]
    /\ pc' = "done"

HorizonBreak ==
    /\ pc = "loop"
    /\ LoopCond
    /\ ~ArrivalChosen
    /\ BeyondHorizon
    /\ Collect
    /\ UNCHANGED <<simArgs, simLocals, runVars, daVars>>

LoopExit ==
    /\ pc = "loop"
    /\ ~LoopCond
    /\ Collect
    /\ UNCHANGED <<simArgs, simLocals, runVars, daVars>>

\* ------------------------------- the two event handlers as state functions
\* The locals of simulate_queue as one value.
SimState ==
    [t |-> t, next_arrival |-> next_arrival, queue |-> queue,
     server_busy |-> server_busy, departure_time |-> departure_time,
     packets_completed |-> packets_completed,
     current_serving |-> current_serving, packet_count |-> packet_count,
     heap |-> heap]

\* line 31
LoopCondOf(s) == s.t < sim_time /\ s.packet_count < max_packets

\* lines 34-47: the arrival event on s, with the gap and (if the server is
\* idle) the service time that the random draws return
ArrivalOf(s, gap, service_time) ==
    LET now == s.next_arrival
        id == Len(s.heap) + 1
        pkt == Packet(now)
    IN  IF ~s.server_busy
        THEN [s EXCEPT !.t = now,
                       !.packet_count = @ + 1,
                       !.heap = Append(@, StartService(pkt, now, service_time)),
                       !.departure_time = now + service_time,
                       !.current_serving = id,
                       !.server_busy = TRUE,
                       !.next_arrival = now + gap]
        ELSE [s EXCEPT !.t = now,
                       !.packet_count = @ + 1,
                       !.heap = Append(@, pkt),
                       !.queue = Append(@, id),
                       !.next_arrival = now + gap]

\* lines 52-66: the departure event on s (departure_time <= sim_time)
DepartureOf(s, service_time) ==
    LET now == s.departure_time
        done == RecordCompletion(s.packets_completed, s.current_serving)
    IN  IF s.queue # <<>>
        THEN LET next_pkt == Popleft(s.queue)[1]
             IN  [s EXCEPT !.t = now,
                           !.packets_completed = done,
                           !.queue = Popleft(s.queue)[2],
                           !.heap = [@ EXCEPT ![next_pkt] =
                                        StartService(@, now, service_time)],
                           !.departure_time = now + service_time,
                           !.current_serving = next_pkt,
                           !.server_busy = TRUE]
        ELSE [s EXCEPT !.t = now,
                       !.packets_completed = done,
                       !.server_busy = FALSE,
                       !.departure_time = IdleDepartureTime(s.departure_time),
                       !.current_serving = 0]

\* lines 68-76 on s
ResultsOf(s) ==
    [delays |-> [i \in 1..Len(s.packets_completed) |->
                    TotalDelay(s.heap[s.packets_completed[i]])],
     queueing_times |-> [i \in 1..Len(s.packets_completed) |->
                            QDelay(s.heap[s.packets_completed[i]])]]

\* Two iterations of the loop from a tie, in the order of the code: the
\* arrival, the loop condition, the departure.
ArrivalThenDeparture(s, gap, service_time) ==
    LET a == ArrivalOf(s, gap, service_time)
    IN  IF LoopCondOf(a) THEN DepartureOf(a, service_time) ELSE a

\* The same two events in the other order.
DepartureThenArrival(s, gap, service_time) ==
    LET d == DepartureOf(s, service_time)
    IN  IF LoopCondOf(d) THEN ArrivalOf(d, gap, service_time) ELSE d

\* ------------------------------------------- a direct call of simulate_queue
Rates == {Num(0, 1), Num(1, 1)}
Samplers == {ExpSampler(Num(1, 1))} \cup {ConstSampler(Num(s, 1)) : s \in 0..MaxService}

Init ==
    /\ pc = "call"
    /\ arrival_rate \in Rates
    /\ service_time_sampler \in Samplers
    /\ sim_time \in 1..MaxSimTime
    /\ max_packets \in 0..MaxPackets
    /\ t = 0
    /\ next_arrival = Inf
    /\ queue = <<>>
    /\ server_busy = FALSE
    /\ departure_time = Inf
    /\ packets_completed = <<>>
    /\ current_serving = 0
    /\ packet_count = 0
    /\ heap = <<>>
    /\ idle_arrivals = {}
    /\ delays = <<>>
    /\ queueing_times = <<>>
    /\ run_pc = "none"
    /\ packet_size_bytes = 0
    /\ bandwidth_bps = 0
    /\ rho_list = <<>>
    /\ run_sim_time = 0
    /\ service_rate_packets = FNaN
    /\ service_time_mean = FNaN
    /\ rows = <<>>
    /\ rho_idx = 0
    /\ delays_mm = <<>>
    /\ q_mm = <<>>
    /\ da_fn = "none"
    /\ da_args = NoArgs
    /\ da_value = FNaN
    /\ da_report = NoReport

Next == Enter \/ ArrivalEvent \/ DepartureEvent \/ HorizonBreak \/ LoopExit

Spec == Init /\ [][Next]_vars

FairSpec == Spec /\ WF_vars(Next)

\* ------------------------------------------------------------ run_experiments
\* The locals of a simulate_queue call that has returned no longer exist.
SimCleared ==
    /\ t' = 0
    /\ next_arrival' = Inf
    /\ queue' = <<>>
    /\ server_busy' = FALSE
    /\ departure_time' = Inf
    /\ packets_completed' = <<>>
    /\ current_serving' = 0
    /\ packet_count' = 0
    /\ heap' = <<>>
    /\ idle_arrivals' = {}

\* lines 89-93; a zero divisor raises ZeroDivisionError
RunSetup ==
    /\ run_pc = "start"
    /\ LET L_bits == packet_size_bytes * 8
       IN  IF L_bits = 0 \/ bandwidth_bps = 0
           THEN /\ run_pc' = "raised"
                /\ UNCHANGED runLocals
           ELSE /\ service_rate_packets' = Num(bandwidth_bps, L_bits)
                /\ service_time_mean' = FDiv(Num(1, 1), Num(bandwidth_bps, L_bits))
                /\ rows' = <<>>
                /\ rho_idx' = 1
                /\ run_pc' = "loop"
                /\ UNCHANGED <<delays_mm, q_mm>>
    /\ UNCHANGED <<simVars, runArgs, daVars>>

\* lines 94-102: the M/M/1 run of the current rho
CallMM1 ==
    /\ run_pc = "loop"
    /\ rho_idx <= Len(rho_list)
    /\ arrival_rate' = FMul(rho_list[rho_idx], service_rate_packets)
    /\ service_time_sampler' = ExpSampler(FDiv(Num(1, 1), service_time_mean))
    /\ sim_time' = run_sim_time
    /\ max_packets' = DefaultMaxPackets
    /\ pc' = "call"
    /\ run_pc' = "mm1"
    /\ UNCHANGED <<simLocals, simResult, runArgs, runLocals, daVars>>

\* lines 102-103: the M/M/1 run has returned; the M/D/1 run of the same rho
CallMD1 ==
    /\ run_pc = "mm1"
    /\ pc = "done"
    /\ delays_mm' = delays
    /\ q_mm' = queueing_times
    /\ service_time_sampler' = ConstSampler(service_time_mean)
    /\ pc' = "call"
    /\ run_pc' = "md1"
    /\ SimCleared
    /\ UNCHANGED <<arrival_rate, sim_time, max_packets, simResult, runArgs,
                   service_rate_packets, service_time_mean, rows, rho_idx,
                   daVars>>

MeanTotalZeroDefault(xs) == IF xs # <<>> THEN Mean(xs) ELSE Num(0, 1)

\* lines 105, 107
MeanTotal(xs) == IF xs # <<>> THEN Mean(xs) ELSE FNaN

\* lines 106, 108
MeanQueue(xs) == IF xs # <<>> THEN Mean(xs) ELSE Num(0, 1)

AnalyticTotalNonStrict(rho, mu, lam) ==
    IF ~FLess(mu, lam) THEN FDiv(Num(1, 1), FSub(mu, lam)) ELSE FInf

\* lines 110-118
AnalyticTotal(rho, mu, lam) ==
    IF FLess(lam, mu) THEN FDiv(Num(1, 1), FSub(mu, lam)) ELSE FInf

AnalyticQueue(rho, mu, lam) ==
    IF FLess(lam, mu) THEN FDiv(rho, FSub(mu, lam)) ELSE FInf

\* lines 120-131
Row(rho, lam, d_mm, qs_mm, d_md, qs_md) ==
    [rho |-> rho,
     arrival_rate_pkts_s |-> lam,
     service_rate_pkts_s |-> service_rate_packets,
     tx_delay_s |-> service_time_mean,
     sim_total_mm1_s |-> MeanTotal(d_mm),
     sim_queue_mm1_s |-> MeanQueue(qs_mm),
     sim_total_md1_s |-> MeanTotal(d_md),
     sim_queue_md1_s |-> MeanQueue(qs_md),
     analytic_mm1_total_s |-> AnalyticTotal(rho, service_rate_packets, lam),
     analytic_mm1_queue_s |-> AnalyticQueue(rho, service_rate_packets, lam)]

\* lines 103-131: the M/D/1 run has returned; the row of the current rho
AppendRow ==
    /\ run_pc = "md1"
    /\ pc = "done"
    /\ rows' = Append(rows, Row(rho_list[rho_idx], arrival_rate,
                                delays_mm, q_mm, delays, queueing_times))
    /\ rho_idx' = rho_idx + 1
    /\ delays_mm' = <<>>
    /\ q_mm' = <<>>
    /\ delays' = <<>>
    /\ queueing_times' = <<>>
    /\ pc' = "idle"
    /\ run_pc' = "loop"
    /\ SimCleared
    /\ UNCHANGED <<simArgs, runArgs, service_rate_packets, service_time_mean,
                   daVars>>

\* line 133
RunReturn ==
    /\ run_pc = "loop"
    /\ rho_idx > Len(rho_list)
    /\ run_pc' = "returned"
    /\ UNCHANGED <<simVars, runArgs, runLocals, daVars>>

\* ------------------------------------------------ a call of run_experiments
Rhos == {Num(0, 1), Num(1, 2), Num(1, 1), Num(3, 2)}
RunSimTimes == {0, 1}
RhoLists == UNION {[1..n -> Rhos] : n \in 1..MaxRhos}

InitRun ==
    /\ run_pc = "start"
    /\ packet_size_bytes \in {0, 1}
    /\ bandwidth_bps \in {-8, 0, 8}
    /\ rho_list \in RhoLists
    /\ run_sim_time \in RunSimTimes
    /\ service_rate_packets = FNaN
    /\ service_time_mean = FNaN
    /\ rows = <<>>
    /\ rho_idx = 0
    /\ delays_mm = <<>>
    /\ q_mm = <<>>
    /\ pc = "idle"
    /\ arrival_rate = Num(0, 1)
    /\ service_time_sampler = ConstSampler(Num(0, 1))
    /\ sim_time = 0
    /\ max_packets = 0
    /\ t = 0
    /\ next_arrival = Inf
    /\ queue = <<>>
    /\ server_busy = FALSE
    /\ departure_time = Inf
    /\ packets_completed = <<>>
    /\ current_serving = 0
    /\ packet_count = 0
    /\ heap = <<>>
    /\ idle_arrivals = {}
    /\ delays = <<>>
    /\ queueing_times = <<>>
    /\ da_fn = "none"
    /\ da_args = NoArgs
    /\ da_value = FNaN
    /\ da_report = NoReport

NextRun ==
    \/ RunSetup \/ CallMM1 \/ CallMD1 \/ AppendRow \/ RunReturn
    \/ Enter \/ ArrivalEvent \/ DepartureEvent \/ HorizonBreak \/ LoopExit

SpecRun == InitRun /\ [][NextRun]_vars

\* ===================================================================== claims
Ids == 1..Len(heap)
CompletedIdx == 1..Len(packets_completed)
Started(id) == heap[id].start_service # None
Departing(id) == heap[id].departure_time # None
Arr(id) == heap[id].arrival_time
Start(id) == heap[id].start_service[1]
Dep(id) == heap[id].departure_time[1]
Entries(id) == {i \in CompletedIdx : packets_completed[i] = id}
DepartBefore == {id \in Ids : Departing(id) /\ Dep(id) < sim_time}
DepartBy == {id \in Ids : Departing(id) /\ Dep(id) <= sim_time}

\* C1 as stated: every packet reported in the returned sequences has a
\* departure_time strictly less than sim_time.
C1_StrictlyInsideHorizon ==
    pc = "done" =>
        /\ Len(delays) = Len(packets_completed)
        /\ \A i \in CompletedIdx : Dep(packets_completed[i]) < sim_time

\* C1 amended: every packet recorded as completed, and so reported in the
\* returned sequences, has a departure_time less than or equal to sim_time; a
\* packet whose departure falls after the horizon is never counted.
C1_WithinHorizon ==
    /\ \A i \in CompletedIdx : Dep(packets_completed[i]) <= sim_time
    /\ \A id \in Ids : Departing(id) /\ Dep(id) > sim_time => Entries(id) = {}
    /\ pc = "done" => Len(delays) = Len(packets_completed)

C1_Witness ==
    /\ pc = "done"
    /\ \E i \in CompletedIdx : Dep(packets_completed[i]) = sim_time
    /\ \E id \in Ids : Departing(id) /\ Dep(id) > sim_time /\ Entries(id) = {}

\* C2 as stated: on return, every admitted packet whose departure_time is
\* strictly before sim_time has exactly one entry, and the number of entries
\* equals the number of such packets.
C2_CompleteResult ==
    pc = "done" =>
        /\ \A id \in DepartBefore : Cardinality(Entries(id)) = 1
        /\ Len(delays) = Len(queueing_times)
        /\ Len(delays) = Cardinality(DepartBefore)

\* C2 amended: when simulate_queue returns with packet_count < max_packets
\* (it stopped because of the horizon, not the cap), every admitted packet
\* whose departure_time is strictly before sim_time has exactly one entry in
\* the returned sequences, the two sequences have the same length, and that
\* length is at least the number of packets with departure_time < sim_time
\* and at most the number with departure_time <= sim_time.
C2_CompleteWithinHorizon ==
    pc = "done" /\ packet_count < max_packets =>
        /\ \A id \in DepartBefore : Cardinality(Entries(id)) = 1
        /\ \A id \in Ids : Cardinality(Entries(id)) <= 1
        /\ Len(delays) = Len(queueing_times)
        /\ Len(delays) = Len(packets_completed)
        /\ Cardinality(DepartBefore) <= Len(delays)
        /\ Len(delays) <= Cardinality(DepartBy)

C2_Witness ==
    /\ pc = "done"
    /\ packet_count < max_packets
    /\ Len(delays) >= 2
    /\ \E id \in Ids : Departing(id) /\ Entries(id) = {}

\* C3: for any two completed packets A and B with A.arrival_time <
\* B.arrival_time, A.departure_time <= B.departure_time and A was appended
\* to packets_completed before B.
C3_Fifo ==
    \A i, j \in CompletedIdx :
        Arr(packets_completed[i]) < Arr(packets_completed[j]) =>
            /\ Dep(packets_completed[i]) <= Dep(packets_completed[j])
            /\ i < j

C3_Witness ==
    \E i, j \in CompletedIdx :
        /\ Arr(packets_completed[i]) < Arr(packets_completed[j])
        /\ Arr(packets_completed[j]) < Start(packets_completed[j])
        /\ Dep(packets_completed[i]) < Dep(packets_completed[j])

\* C4: with a sampler that returns only non-negative values, every packet
\* whose start_service and departure_time are set has
\* arrival_time <= start_service <= departure_time.
C4_TimestampOrder ==
    \A id \in Ids :
        Started(id) /\ Departing(id) =>
            Arr(id) <= Start(id) /\ Start(id) <= Dep(id)

C4_Witness ==
    \E id \in Ids :
        Started(id) /\ Departing(id) /\ Arr(id) < Start(id) /\ Start(id) < Dep(id)

\* C5: the event loop of simulate_queue eventually stops and returns, for
\* every horizon, cap, arrival rate and sequence of non-negative
\* inter-arrival and service times, zero-length ones included.
C5_Terminates == <>(pc = "done")

C5_Witness ==
    /\ pc = "done"
    /\ \E a, b \in Ids : a # b /\ Arr(a) = Arr(b)
    /\ \E id \in Ids : Started(id) /\ Departing(id) /\ Start(id) = Dep(id)
    /\ packet_count < max_packets

\* C6: called with arrival_rate = 0, simulate_queue never schedules an
\* arrival (next_arrival stays +infinity), admits no packet and returns two
\* empty sequences.
C6_NoArrivals ==
    IsZero(arrival_rate) /\ pc \in {"loop", "done"} =>
        /\ next_arrival = Inf
        /\ packet_count = 0
        /\ heap = <<>>
        /\ pc = "done" => delays = <<>> /\ queueing_times = <<>>

C6_Witness ==
    /\ IsZero(arrival_rate)
    /\ pc = "done"
    /\ sim_time > 1
    /\ max_packets > 0

\* C7: the returned sequences have equal length, one entry per completed
\* packet in completion order; the i-th total delay is departure_time -
\* arrival_time and the i-th queueing delay is start_service - arrival_time
\* of the i-th completed packet; the queueing delay is 0 for a packet that
\* arrived while the server was idle, and 0 <= queueing delay <= total delay.
C7_DelayAccounting ==
    pc = "done" =>
        /\ Len(delays) = Len(packets_completed)
        /\ Len(queueing_times) = Len(packets_completed)
        /\ \A i \in CompletedIdx :
             LET p == heap[packets_completed[i]]
             IN  /\ delays[i] = p.departure_time[1] - p.arrival_time
                 /\ queueing_times[i] = p.start_service[1] - p.arrival_time
                 /\ packets_completed[i] \in idle_arrivals => queueing_times[i] = 0
                 /\ 0 <= queueing_times[i]
                 /\ queueing_times[i] <= delays[i]

C7_Witness ==
    /\ pc = "done"
    /\ \E i \in CompletedIdx : queueing_times[i] > 0
    /\ \E i \in CompletedIdx : delays[i] > queueing_times[i]
    /\ \E i \in CompletedIdx :
         packets_completed[i] \in idle_arrivals /\ Arr(packets_completed[i]) > 0
    /\ \E i \in CompletedIdx : Start(packets_completed[i]) = 0

\* C8: the number of packets admitted never exceeds max_packets, and no
\* arrival is processed once packet_count has reached max_packets.
C8_PacketCap ==
    /\ [](pc \in {"loop", "done"} => packet_count <= max_packets)
    /\ [][pc = "loop" /\ packet_count >= max_packets =>
            UNCHANGED <<packet_count, heap, queue, next_arrival>>]_vars

C8_Witness ==
    /\ pc = "done"
    /\ max_packets >= 2
    /\ packet_count = max_packets
    /\ next_arrival <= sim_time
    /\ t < sim_time

\* ---- run_experiments
MalformedGlobal ==
    bandwidth_bps <= 0 \/ packet_size_bytes <= 0 \/ run_sim_time <= 0
RhoInRange(rho) == FLess(Num(0, 1), rho) /\ FLess(rho, Num(1, 1))

\* C9 as stated: run_experiments never returns a table holding a row for a
\* malformed configuration (non-positive bandwidth_bps, packet_size_bytes or
\* sim_time, or a rho outside the open interval (0,1)).
C9_MalformedRejected ==
    run_pc = "returned" =>
        \A i \in 1..Len(rows) : ~MalformedGlobal /\ RhoInRange(rows[i].rho)

\* C10: when a simulate_queue run of the sweep returned empty sequences, the
\* row of that rho reports the simulated mean total delay as not-a-number and
\* the simulated mean queueing delay as 0, no failure is raised, and the
\* sweep goes on: every rho of the list gets its row.
C10_ZeroCompletions ==
    /\ [][run_pc = "md1" /\ pc = "done" /\ run_pc' # run_pc =>
            LET row == rows'[Len(rows')]
            IN  /\ Len(rows') = Len(rows) + 1
                /\ row.rho = rho_list[rho_idx]
                /\ delays_mm = <<>> =>
                     row.sim_total_mm1_s = FNaN /\ row.sim_queue_mm1_s = Num(0, 1)
                /\ delays = <<>> =>
                     row.sim_total_md1_s = FNaN /\ row.sim_queue_md1_s = Num(0, 1)
                /\ run_pc' = "loop"
                /\ rho_idx' = rho_idx + 1]_vars
    /\ [](run_pc = "loop" => rho_idx = Len(rows) + 1)
    /\ [](run_pc = "returned" => Len(rows) = Len(rho_list))

C10_Witness ==
    /\ run_pc = "returned"
    /\ Len(rows) = 2
    /\ rows[1].sim_total_mm1_s = FNaN
    /\ rows[1].sim_queue_mm1_s = Num(0, 1)
    /\ rows[1].sim_total_md1_s = FNaN
    /\ rows[2].sim_total_mm1_s.k = "num"
    /\ rows[2].sim_total_md1_s = FNaN
    /\ run_sim_time > 0

\* C11: in every row, with mu = bandwidth_bps / (packet_size_bytes * 8) and
\* lambda = rho * mu: if lambda < mu the analytic total delay is
\* 1/(mu - lambda) and the analytic queueing delay is rho/(mu - lambda); if
\* lambda >= mu (equality included, which for mu > 0 is rho >= 1) both are
\* infinite; no division by zero occurs (every finite value has a non-zero
\* denominator).
C11_AnalyticValues ==
    \A i \in 1..Len(rows) :
        LET rho == rows[i].rho
            M == rows[i].service_rate_pkts_s
            L == rows[i].arrival_rate_pkts_s
            A == rows[i].analytic_mm1_total_s
            Q == rows[i].analytic_mm1_queue_s
            gapN == M.n * L.d - L.n * M.d
            gapD == M.d * L.d
        IN  /\ M.k = "num" /\ M.d > 0
            /\ M.n * (packet_size_bytes * 8) = bandwidth_bps * M.d
            /\ L.k = "num" /\ L.d > 0
            /\ L.n * rho.d * M.d = rho.n * M.n * L.d
            /\ IF L.n * M.d < M.n * L.d
               THEN /\ A.k = "num" /\ A.d > 0
                    /\ A.n * gapN = A.d * gapD
                    /\ Q.k = "num" /\ Q.d > 0
                    /\ Q.n * rho.d * gapN = Q.d * rho.n * gapD
               ELSE A = FInf /\ Q = FInf
            /\ bandwidth_bps > 0 /\ packet_size_bytes > 0 /\ rho.n >= rho.d =>
                 A = FInf /\ Q = FInf

C11_Witness ==
    /\ run_pc = "returned"
    /\ Len(rows) = 2
    /\ rows[1].rho = Num(1, 2)
    /\ rows[1].analytic_mm1_total_s = Num(2, 1)
    /\ rows[1].analytic_mm1_queue_s = Num(1, 1)
    /\ rows[2].rho = Num(1, 1)
    /\ rows[2].analytic_mm1_total_s = FInf
    /\ rows[2].analytic_mm1_queue_s = FInf

\* ---- delay_analyzer
\* C12: transmission_delay with bandwidth 0, propagation_delay with
\* propagation speed 0 and congestion_delay with service rate <= arrival rate
\* each return the infinite-delay value and never raise; total_network_delay
\* reports an infinite total whenever one of its three components is
\* infinite.
C12_InfiniteNotFault ==
    /\ da_fn = "transmission_delay" =>
         /\ ~Raises(da_value)
         /\ da_args.bandwidth_bps = 0 => da_value = FInf
    /\ da_fn = "propagation_delay" =>
         /\ ~Raises(da_value)
         /\ da_args.propagation_speed_kmps = 0 => da_value = FInf
    /\ da_fn = "congestion_delay" =>
         /\ ~Raises(da_value)
         /\ da_args.service_rate <= da_args.arrival_rate => da_value = FInf
    /\ da_fn = "total_network_delay" =>
         /\ ~Raises(da_report.total)
         /\ da_args.bandwidth_bps = 0 => da_report.transmission = FInf
         /\ da_args.propagation_speed_kmps = 0 => da_report.propagation = FInf
         /\ da_args.service_rate <= da_args.arrival_rate =>
              da_report.congestion = FInf
         /\ FInf \in {da_report.transmission, da_report.propagation,
                      da_report.congestion} => da_report.total = FInf

C12_Witness ==
    /\ da_fn = "total_network_delay"
    /\ da_args.bandwidth_bps = 0
    /\ da_args.packet_size_bits > 0
    /\ da_report.transmission = FInf
    /\ da_report.propagation.k = "num"
    /\ da_report.congestion.k = "num"
    /\ da_report.total = FInf

\* ---- simulate_queue, continued
InCall == pc \in {"loop", "done"}
Waiting == {queue[i] : i \in 1..Len(queue)}
Completed == {packets_completed[i] : i \in CompletedIdx}
Serving == IF current_serving # 0 THEN {current_serving} ELSE {}
Max(a, b) == IF a >= b THEN a ELSE b

\* C13: at every loop-iteration boundary and on return, server_busy is true
\* iff current_serving is set iff departure_time is finite; when the server
\* is busy, departure_time equals current_serving.departure_time.
C13_ServerState ==
    InCall =>
        /\ server_busy <=> current_serving # 0
        /\ server_busy <=> departure_time < Inf
        /\ server_busy =>
             /\ heap[current_serving].departure_time # None
             /\ departure_time = heap[current_serving].departure_time[1]

C13_Witness ==
    /\ pc = "loop"
    /\ server_busy
    /\ Len(packets_completed) >= 1
    /\ Arr(current_serving) < Start(current_serving)
    /\ queue # <<>>

\* C15: across every step of simulate_queue the simulated time t never
\* decreases, events are processed in non-decreasing time order (arrival
\* times in order of admission, departure times in order of completion, none
\* later than t), and t never exceeds sim_time.
C15_ClockMonotone ==
    /\ [][pc = "loop" => t' >= t]_vars
    /\ [](InCall =>
            /\ t <= sim_time
            /\ \A a, b \in Ids : a < b => Arr(a) <= Arr(b)
            /\ \A id \in Ids : Arr(id) <= t /\ (Started(id) => Start(id) <= t)
            /\ \A i, j \in CompletedIdx :
                 i < j => Dep(packets_completed[i]) <= Dep(packets_completed[j])
            /\ \A i \in CompletedIdx : Dep(packets_completed[i]) <= t)

C15_Witness ==
    /\ pc = "done"
    /\ t = sim_time
    /\ Len(packets_completed) >= 2
    /\ \E id \in Ids : Arr(id) > 0 /\ Arr(id) < t
    /\ Dep(packets_completed[1]) < Dep(packets_completed[2])

\* C16: start_service and departure_time of a packet are assigned once and
\* never overwritten (and together), a packet in the waiting line has both
\* unset, and once a packet is in packets_completed none of its timestamps
\* changes and it is never appended a second time.
C16_Lifecycle ==
    /\ [](InCall =>
            /\ \A id \in Waiting : ~Started(id) /\ ~Departing(id)
            /\ \A id \in Ids : Started(id) <=> Departing(id)
            /\ \A id \in Ids : Cardinality(Entries(id)) <= 1)
    /\ [][pc = "loop" =>
            /\ Len(heap') >= Len(heap)
            /\ Len(packets_completed') >= Len(packets_completed)
            /\ \A i \in CompletedIdx : packets_completed'[i] = packets_completed[i]
            /\ \A id \in Ids :
                 /\ heap'[id].arrival_time = heap[id].arrival_time
                 /\ Started(id) => heap'[id].start_service = heap[id].start_service
                 /\ Departing(id) =>
                      heap'[id].departure_time = heap[id].departure_time
                 /\ id \in Completed => heap'[id] = heap[id]]_vars

C16_Witness ==
    /\ pc = "loop"
    /\ \E id \in Completed : Arr(id) < Start(id)
    /\ current_serving # 0
    /\ queue # <<>>

\* C17: the n-th admitted packet that enters service has start_service =
\* max(its arrival_time, departure_time of the (n-1)-th admitted packet), and
\* start_service = arrival_time for the first; the waiting line is non-empty
\* only while the server is busy.
C17_Lindley ==
    InCall =>
        /\ \A id \in Ids :
             Started(id) =>
                 IF id = 1 THEN Start(id) = Arr(id)
                 ELSE /\ Departing(id - 1)
                      /\ Start(id) = Max(Arr(id), Dep(id - 1))
        /\ queue # <<>> => server_busy

C17_Witness ==
    /\ \E id \in Ids :
         id > 1 /\ Started(id) /\ Start(id) = Dep(id - 1) /\ Arr(id) < Start(id)
    /\ \E id \in Ids :
         id > 1 /\ Started(id) /\ Start(id) = Arr(id) /\ Dep(id - 1) < Start(id)

\* C18: at every loop-iteration boundary packet_count = len(packets_completed)
\* + len(queue) + (1 if the server is busy else 0); every admitted packet is
\* in exactly one of the waiting line, the server and the completed list.
C18_Conservation ==
    InCall =>
        /\ packet_count =
             Len(packets_completed) + Len(queue) + (IF server_busy THEN 1 ELSE 0)
        /\ packet_count = Len(heap)
        /\ Ids = Completed \cup Waiting \cup Serving
        /\ Cardinality(Completed) = Len(packets_completed)
        /\ Cardinality(Waiting) = Len(queue)
        /\ Completed \cap Waiting = {}
        /\ Completed \cap Serving = {}
        /\ Waiting \cap Serving = {}

C18_Witness ==
    /\ pc = "loop"
    /\ Len(packets_completed) >= 1
    /\ Len(queue) >= 1
    /\ server_busy
    /\ packet_count >= 3

\* C19: when simulate_queue stops with packet_count = max_packets >= 1, the
\* last admitted packet is not among the completed packets, the returned
\* sequences have at most max_packets - 1 entries, and every packet still
\* waiting or in service is left out, even one whose departure_time is
\* within the horizon.
C19_CapDropsLast ==
    pc = "done" /\ max_packets >= 1 /\ packet_count = max_packets =>
        /\ Entries(max_packets) = {}
        /\ max_packets \in Waiting \cup Serving
        /\ Len(delays) <= max_packets - 1
        /\ Len(queueing_times) <= max_packets - 1
        /\ \A id \in Waiting \cup Serving : Entries(id) = {}

C19_Witness ==
    /\ pc = "done"
    /\ max_packets >= 2
    /\ packet_count = max_packets
    /\ Len(delays) >= 1
    /\ current_serving # 0
    /\ Dep(current_serving) < sim_time

\* ---- the tie-break
Tie == pc = "loop" /\ LoopCond /\ next_arrival = departure_time
Gaps == Expovariate(arrival_rate, MaxGap)
Services == Sample(service_time_sampler)

\* The event handlers as state functions are the steps of the loop.
HandlersAreSteps ==
    /\ pc = "loop" /\ pc' = "loop" /\ packet_count' = packet_count + 1 =>
         \E gap \in Gaps, service_time \in Services :
             SimState' = ArrivalOf(SimState, gap, service_time)
    /\ pc = "loop" /\ pc' = "loop" /\ packet_count' = packet_count =>
         \E service_time \in Services :
             SimState' = DepartureOf(SimState, service_time)

\* C14 as stated: in any state where next_arrival = departure_time <=
\* sim_time, the arrival and then the departure lead to the same simulation
\* state and the same returned sequences as the departure and then the
\* arrival, for every sim_time and max_packets.
C14_TieCommutes ==
    Tie /\ next_arrival <= sim_time =>
        \A gap \in Gaps, service_time \in Services :
            LET ad == ArrivalThenDeparture(SimState, gap, service_time)
                da == DepartureThenArrival(SimState, gap, service_time)
            IN  ad = da /\ ResultsOf(ad) = ResultsOf(da)

\* C14 amended: in any state where next_arrival = departure_time < sim_time
\* and packet_count + 1 < max_packets, with the same gap and service time
\* drawn, the arrival and then the departure lead to the same simulation
\* state, and so to the same returned sequences, as the departure and then
\* the arrival.
C14_TieCommutesInside ==
    /\ [](Tie /\ next_arrival < sim_time /\ packet_count + 1 < max_packets =>
            \A gap \in Gaps, service_time \in Services :
                LET ad == ArrivalThenDeparture(SimState, gap, service_time)
                    da == DepartureThenArrival(SimState, gap, service_time)
                IN  /\ ad = da
                    /\ ResultsOf(ad) = ResultsOf(da)
                    /\ Len(ad.packets_completed) = Len(packets_completed) + 1
                    /\ ad.packet_count = packet_count + 1)
    /\ [][HandlersAreSteps]_vars

\* a packet that was queued at a tie and entered service at the departure
\* event of the same instant, the run going on
C14_Witness ==
    /\ pc = "loop"
    /\ LoopCond
    /\ \E id \in Ids :
         /\ id \notin idle_arrivals
         /\ Started(id)
         /\ Start(id) = Arr(id)
         /\ Arr(id) > 0
         /\ id - 1 \in Completed
         /\ Dep(id - 1) = Arr(id)
====
